---- MODULE Spec2Model ----
(* Model of the Modbus TCP server of src/server/tcp.rs: the listener set-up,  *)
(* the accept loop of serve_until, the race of the accept loop against the    *)
(* shutdown signal, the runtime owned by serve_until, and one process() task  *)
(* per accepted connection.                                                   *)
EXTENDS Integers, Sequences, FiniteSets, TLC

MaxConns == 2       \* connections the peer side opens during a run; those
                    \* not yet accepted wait in the backlog of the listener
MaxWorkers == 3     \* largest worker count handed to Server::threads
MaxReqs == 2        \* frames decoded during a run, over all connections
Backlog == 1024     \* listener.listen(1024)

Conns == 1..MaxConns
\* request ADUs a peer puts on the wire: header (transaction id) and payload
Frames == {[hdr |-> 1, pdu |-> 1], [hdr |-> 2, pdu |-> 2]}
Rsps == {1, 2}              \* payloads a handler may return
Families == {"V4", "V6"}    \* SocketAddr::V4 / SocketAddr::V6
NoSocket == [ok |-> FALSE, step |-> 0]

VARIABLES
    entry,      \* "serve" or "serve_until": the entry point that was called
    addr,       \* address family of Server.socket_addr
    threads,    \* Server.threads: 0 is None, n > 0 is Some(n)
    failAt,     \* which OS call of listener() fails in this run (0: none)
    sig,        \* shutdown_signal: "pending" or "resolved"
    srv,        \* Idle, Serving, ShuttingDown, Stopped, Panicked
    cause,      \* which branch of select! completed: none, shutdown, acceptErr
    lsock,      \* the socket listener() built
    nacc,       \* number of connections accepted so far
    ninst,      \* number of handler instances the factory has produced
    pc,         \* per connection: position of its spawned task
    res,        \* per connection: how its task ended
    open,       \* per connection: the TcpStream inside framed is alive
    rd,         \* per connection: what the last framed.next() yielded
    inst,       \* per connection: the Service instance owned by process(),
                \* named after the task whose new_service() call returned it
    hdr,        \* per connection: the local hdr of process()
    rsp,        \* per connection: the local response of process()
    reqs,       \* per connection: requests decoded by framed.next()
    calls,      \* per connection: service.call invocations and their results
    out         \* per connection: response ADUs written by framed.send

cfgvars == <<entry, addr, threads, failAt>>
srvvars == <<sig, srv, cause, lsock, nacc>>
sessvars == <<ninst, pc, res, open, rd, inst, hdr, rsp, reqs, calls, out>>
vars == <<entry, addr, threads, failAt, sig, srv, cause, lsock, nacc,
          ninst, pc, res, open, rd, inst, hdr, rsp, reqs, calls, out>>

----------------------------------------------------------------------------
(* Socket configurator *)

\* Socket::reuse_port(&self) -> io::Result<bool> reads SO_REUSEPORT; the
\* value read is discarded by `?;` and the socket is left as it was
reuse_port(sock) == sock

\* Socket::reuse_address(&self) -> io::Result<bool> reads SO_REUSEADDR; the
\* value read is discarded by `?;` and the socket is left as it was
reuse_address(sock) == sock

\* configure_tcp (unix): tcp.reuse_port()? is called only when workers > 1
configure_tcp(workers, sock) ==
    IF workers > 1 THEN reuse_port(sock) ELSE sock

\* listener(addr, workers): the OS calls in order; call number f fails
\*   1 Socket::new  2 reuse_port  3 reuse_address  4 bind  5 listen  6 from_std
\* a new socket has both options off; reuseAtBind is SO_REUSEADDR as bind saw it
listener(family, workers, f) ==
    LET s0 == [ok |-> TRUE, step |-> 0, domain |-> family, reuseAddr |-> FALSE,
               reusePort |-> FALSE, bound |-> FALSE, backlog |-> 0,
               reuseAtBind |-> FALSE]
        s2 == configure_tcp(workers, s0)
        s3 == reuse_address(s2)
        s4 == [s3 EXCEPT !.bound = TRUE, !.reuseAtBind = s3.reuseAddr]
        s5 == [s4 EXCEPT !.backlog = Backlog]
    IN  IF f = 1 THEN [ok |-> FALSE, step |-> 1]
        ELSE IF f = 2 /\ workers > 1 THEN [ok |-> FALSE, step |-> 2]
        ELSE IF f = 3 THEN [ok |-> FALSE, step |-> 3]
        ELSE IF f = 4 THEN [ok |-> FALSE, step |-> 4]
        ELSE IF f = 5 THEN [ok |-> FALSE, step |-> 5]
        ELSE IF f = 6 THEN [ok |-> FALSE, step |-> 6]
        ELSE s5

\* server.threads.unwrap_or(1)
Workers == IF threads = 0 THEN 1 ELSE threads

\* the OS calls listener() makes for a worker count, and 0 for "none fails"
FailPoints(workers) == {0, 1, 3, 4, 5, 6} \cup (IF workers > 1 THEN {2} ELSE {})

----------------------------------------------------------------------------
Init ==
    /\ entry \in {"serve", "serve_until"}
    /\ addr = "V4"
    /\ threads = 0
    /\ failAt \in FailPoints(Workers)
    /\ sig \in (IF entry = "serve" THEN {"pending"} ELSE {"pending", "resolved"})
    /\ srv = "Idle"
    /\ cause = "none"
    /\ lsock = NoSocket
    /\ nacc = 0
    /\ ninst = 0
    /\ pc = [c \in Conns |-> "none"]
    /\ res = [c \in Conns |-> "none"]
    /\ open = [c \in Conns |-> FALSE]
    /\ rd = [c \in Conns |-> "none"]
    /\ inst = [c \in Conns |-> 0]
    /\ hdr = [c \in Conns |-> 0]
    /\ rsp = [c \in Conns |-> 0]
    /\ reqs = [c \in Conns |-> <<>>]
    /\ calls = [c \in Conns |-> <<>>]
    /\ out = [c \in Conns |-> <<>>]

\* Server::new(addr), optionally .threads(n), for every address family and
\* worker count, with any one OS call of listener() failing or none
InitListener ==
    /\ entry \in {"serve", "serve_until"}
    /\ addr \in Families
    /\ threads \in 0..MaxWorkers
    /\ failAt \in FailPoints(Workers)
    /\ sig \in (IF entry = "serve" THEN {"pending"} ELSE {"pending", "resolved"})
    /\ srv = "Idle"
    /\ cause = "none"
    /\ lsock = NoSocket
    /\ nacc = 0
    /\ ninst = 0
    /\ pc = [c \in Conns |-> "none"]
    /\ res = [c \in Conns |-> "none"]
    /\ open = [c \in Conns |-> FALSE]
    /\ rd = [c \in Conns |-> "none"]
    /\ inst = [c \in Conns |-> 0]
    /\ hdr = [c \in Conns |-> 0]
    /\ rsp = [c \in Conns |-> 0]
    /\ reqs = [c \in Conns |-> <<>>]
    /\ calls = [c \in Conns |-> <<>>]
    /\ out = [c \in Conns |-> <<>>]

\* the runtime built by serve_until is alive and polls spawned tasks
RuntimeAlive == srv \in {"Serving", "ShuttingDown"}

Live(c) == pc[c] \in {"spawned", "reading", "calling", "writing"}

\* frames decoded so far, over all connections
RECURSIVE SumLen(_, _)
SumLen(f, n) == IF n = 0 THEN 0 ELSE Len(f[n]) + SumLen(f, n - 1)
Decoded == SumLen(reqs, MaxConns)

----------------------------------------------------------------------------
(* serve_until *)

\* as Startup, with listener(addr, workers)? in place of unwrap()
StartupTry ==
    /\ srv = "Idle"
    /\ lsock' = listener(addr, Workers, failAt)
    /\ srv' = IF lsock'.ok THEN "Serving" ELSE "ShuttingDown"
    /\ cause' = IF lsock'.ok THEN cause ELSE "acceptErr"
    /\ UNCHANGED <<sig, nacc>>
    /\ UNCHANGED cfgvars
    /\ UNCHANGED sessvars

\* first poll of the server future: listener(addr, workers).unwrap()
Startup ==
    /\ srv = "Idle"
    /\ lsock' = listener(addr, Workers, failAt)
    /\ srv' = IF lsock'.ok THEN "Serving" ELSE "Panicked"
    /\ UNCHANGED <<sig, cause, nacc>>
    /\ UNCHANGED cfgvars
    /\ UNCHANGED sessvars

\* as Accept, with the accept loop spawned on the runtime instead of raced
AcceptDetached ==
    /\ srv \in {"Serving", "ShuttingDown"}
    /\ nacc < MaxConns
    /\ nacc' = nacc + 1
    /\ pc' = [pc EXCEPT ![nacc + 1] = "spawned"]
    /\ open' = [open EXCEPT ![nacc + 1] = TRUE]
    /\ UNCHANGED <<sig, srv, cause, lsock>>
    /\ UNCHANGED cfgvars
    /\ UNCHANGED <<ninst, res, rd, inst, hdr, rsp, reqs, calls, out>>

\* as Accept, with process() awaited in the accept loop instead of spawned
AcceptSequential ==
    /\ srv = "Serving"
    /\ nacc < MaxConns
    /\ \A c \in Conns : ~Live(c)
    /\ nacc' = nacc + 1
    /\ pc' = [pc EXCEPT ![nacc + 1] = "spawned"]
    /\ open' = [open EXCEPT ![nacc + 1] = TRUE]
    /\ UNCHANGED <<sig, srv, cause, lsock>>
    /\ UNCHANGED cfgvars
    /\ UNCHANGED <<ninst, res, rd, inst, hdr, rsp, reqs, calls, out>>

\* listener.accept() yields a stream: Framed::new and tokio::spawn
Accept ==
    /\ srv = "Serving"
    /\ nacc < MaxConns
    /\ nacc' = nacc + 1
    /\ pc' = [pc EXCEPT ![nacc + 1] = "spawned"]
    /\ open' = [open EXCEPT ![nacc + 1] = TRUE]
    /\ UNCHANGED <<sig, srv, cause, lsock>>
    /\ UNCHANGED cfgvars
    /\ UNCHANGED <<ninst, res, rd, inst, hdr, rsp, reqs, calls, out>>

\* as AcceptError, with the error logged and the loop continued
AcceptErrorRetry ==
    /\ srv = "Serving"
    /\ cause = "none"
    /\ cause' = "acceptErr"
    /\ UNCHANGED <<sig, srv, lsock, nacc>>
    /\ UNCHANGED cfgvars
    /\ UNCHANGED sessvars

\* listener.accept() yields Err: `?` ends the server future, select! logs it
AcceptError ==
    /\ srv = "Serving"
    /\ srv' = "ShuttingDown"
    /\ cause' = "acceptErr"
    /\ UNCHANGED <<sig, lsock, nacc>>
    /\ UNCHANGED cfgvars
    /\ UNCHANGED sessvars

\* as SignalResolves, with serve handing over a signal that can resolve
SignalResolvesAlways ==
    /\ sig = "pending"
    /\ sig' = "resolved"
    /\ UNCHANGED <<srv, cause, lsock, nacc>>
    /\ UNCHANGED cfgvars
    /\ UNCHANGED sessvars

\* the future handed to serve_until resolves (serve hands future::pending())
SignalResolves ==
    /\ entry = "serve_until"
    /\ sig = "pending"
    /\ sig' = "resolved"
    /\ UNCHANGED <<srv, cause, lsock, nacc>>
    /\ UNCHANGED cfgvars
    /\ UNCHANGED sessvars

\* select! finds shutdown_signal ready; it may poll it before the server
\* future has ever been polled
ShutdownObserved ==
    /\ sig = "resolved"
    /\ srv \in {"Idle", "Serving"}
    /\ srv' = "ShuttingDown"
    /\ cause' = "shutdown"
    /\ UNCHANGED <<sig, lsock, nacc>>
    /\ UNCHANGED cfgvars
    /\ UNCHANGED sessvars

\* as RuntimeDrop, with the tasks detached from the runtime serve_until owns
RuntimeDropDetached ==
    /\ srv = "ShuttingDown"
    /\ srv' = "Stopped"
    /\ UNCHANGED <<sig, cause, lsock, nacc>>
    /\ UNCHANGED cfgvars
    /\ UNCHANGED sessvars

\* rt.block_on(task) is over and serve_until returns: rt goes out of scope,
\* and a dropped runtime drops every task it still holds
RuntimeDrop ==
    /\ srv = "ShuttingDown"
    /\ srv' = "Stopped"
    /\ pc' = [c \in Conns |-> IF Live(c) THEN "ended" ELSE pc[c]]
    /\ res' = [c \in Conns |-> IF Live(c) THEN "cancelled" ELSE res[c]]
    /\ open' = [c \in Conns |-> IF Live(c) THEN FALSE ELSE open[c]]
    /\ hdr' = [c \in Conns |-> IF Live(c) THEN 0 ELSE hdr[c]]
    /\ rsp' = [c \in Conns |-> IF Live(c) THEN 0 ELSE rsp[c]]
    /\ UNCHANGED <<sig, cause, lsock, nacc>>
    /\ UNCHANGED cfgvars
    /\ UNCHANGED <<ninst, rd, inst, reqs, calls, out>>

----------------------------------------------------------------------------
(* The task spawned per connection, and process() *)

\* as EndSession, with the stream kept alive past the end of the task
EndSessionLeak(c, r) ==
    /\ pc' = [pc EXCEPT ![c] = "ended"]
    /\ res' = [res EXCEPT ![c] = r]
    /\ open' = open
    /\ hdr' = [hdr EXCEPT ![c] = 0]
    /\ rsp' = [rsp EXCEPT ![c] = 0]

\* the task's outcome, with everything it owns dropped: framed (the stream),
\* the service instance and the locals of process()
EndSession(c, r) ==
    /\ pc' = [pc EXCEPT ![c] = "ended"]
    /\ res' = [res EXCEPT ![c] = r]
    /\ open' = [open EXCEPT ![c] = FALSE]
    /\ hdr' = [hdr EXCEPT ![c] = 0]
    /\ rsp' = [rsp EXCEPT ![c] = 0]

\* as ResponseAdu, with the header taken once, from the first request
ResponseAduFirstHdr(c) == [hdr |-> reqs[c][1].hdr, pdu |-> rsp[c], conn |-> c]

\* tcp::ResponseAdu { hdr, pdu: response.into() }
ResponseAdu(c) == [hdr |-> hdr[c], pdu |-> rsp[c], conn |-> c]

\* as NewServiceOk, with one service built once and handed to every task
NewServiceOkShared(c) ==
    /\ RuntimeAlive
    /\ pc[c] = "spawned"
    /\ ninst' = 1
    /\ inst' = [inst EXCEPT ![c] = 1]
    /\ pc' = [pc EXCEPT ![c] = "reading"]
    /\ UNCHANGED <<res, open, rd, hdr, rsp, reqs, calls, out>>
    /\ UNCHANGED cfgvars
    /\ UNCHANGED srvvars

\* as NewServiceOk, with the service built lazily, after process() has started
NewServiceOkLazy(c) ==
    /\ RuntimeAlive
    /\ pc[c] = "spawned"
    /\ pc' = [pc EXCEPT ![c] = "reading"]
    /\ UNCHANGED <<ninst, inst, res, open, rd, hdr, rsp, reqs, calls, out>>
    /\ UNCHANGED cfgvars
    /\ UNCHANGED srvvars

\* new_service.new_service().unwrap(): Ok(service), then process(framed, service)
NewServiceOk(c) ==
    /\ RuntimeAlive
    /\ pc[c] = "spawned"
    /\ ninst' = ninst + 1
    /\ inst' = [inst EXCEPT ![c] = c]
    /\ pc' = [pc EXCEPT ![c] = "reading"]
    /\ UNCHANGED <<res, open, rd, hdr, rsp, reqs, calls, out>>
    /\ UNCHANGED cfgvars
    /\ UNCHANGED srvvars

\* as NewServiceErr, with new_service().unwrap() made in the accept loop
\* itself, ahead of tokio::spawn
NewServiceErrInAcceptLoop(c) ==
    /\ RuntimeAlive
    /\ pc[c] = "spawned"
    /\ EndSession(c, "panic")
    /\ srv' = "Panicked"
    /\ UNCHANGED <<ninst, rd, inst, reqs, calls, out>>
    /\ UNCHANGED <<sig, cause, lsock, nacc>>
    /\ UNCHANGED cfgvars

\* new_service.new_service().unwrap(): Err, the task panics and is torn down
NewServiceErr(c) ==
    /\ RuntimeAlive
    /\ pc[c] = "spawned"
    /\ EndSession(c, "panic")
    /\ UNCHANGED <<ninst, rd, inst, reqs, calls, out>>
    /\ UNCHANGED cfgvars
    /\ UNCHANGED srvvars

\* as ReadFrame, with the next frame read while the response is still being
\* written (pipelining)
ReadFramePipelined(c, f) ==
    /\ RuntimeAlive
    /\ pc[c] \in {"reading", "writing"}
    /\ Decoded < MaxReqs
    /\ reqs' = [reqs EXCEPT ![c] = Append(@, f)]
    /\ hdr' = [hdr EXCEPT ![c] = f.hdr]
    /\ calls' = [calls EXCEPT ![c] = Append(@, [inst |-> inst[c], pdu |-> f.pdu, ret |-> 0])]
    /\ pc' = [pc EXCEPT ![c] = "calling"]
    /\ UNCHANGED <<ninst, res, open, inst, rsp, out>>
    /\ rd' = [rd EXCEPT ![c] = "frame"]
    /\ UNCHANGED cfgvars
    /\ UNCHANGED srvvars

\* as ReadFrame, with the handler called a second time for the same request
ReadFrameCallTwice(c, f) ==
    /\ RuntimeAlive
    /\ pc[c] = "reading"
    /\ Decoded < MaxReqs
    /\ reqs' = [reqs EXCEPT ![c] = Append(@, f)]
    /\ hdr' = [hdr EXCEPT ![c] = f.hdr]
    /\ calls' = [calls EXCEPT ![c] =
                    Append(Append(@, [inst |-> inst[c], pdu |-> f.pdu, ret |-> 1]),
                           [inst |-> inst[c], pdu |-> f.pdu, ret |-> 0])]
    /\ pc' = [pc EXCEPT ![c] = "calling"]
    /\ UNCHANGED <<ninst, res, open, inst, rsp, out>>
    /\ rd' = [rd EXCEPT ![c] = "frame"]
    /\ UNCHANGED cfgvars
    /\ UNCHANGED srvvars

\* framed.next() yields Some(Ok(request)): hdr is taken, service.call is made
ReadFrame(c, f) ==
    /\ RuntimeAlive
    /\ pc[c] = "reading"
    /\ Decoded < MaxReqs
    /\ reqs' = [reqs EXCEPT ![c] = Append(@, f)]
    /\ hdr' = [hdr EXCEPT ![c] = f.hdr]
    /\ calls' = [calls EXCEPT ![c] = Append(@, [inst |-> inst[c], pdu |-> f.pdu, ret |-> 0])]
    /\ pc' = [pc EXCEPT ![c] = "calling"]
    /\ UNCHANGED <<ninst, res, open, inst, rsp, out>>
    /\ rd' = [rd EXCEPT ![c] = "frame"]
    /\ UNCHANGED cfgvars
    /\ UNCHANGED srvvars

\* as ReadEof, with end-of-stream reported as an error
ReadEofAsError(c) ==
    /\ RuntimeAlive
    /\ pc[c] = "reading"
    /\ EndSession(c, "err")
    /\ rd' = [rd EXCEPT ![c] = "eof"]
    /\ UNCHANGED <<ninst, inst, reqs, calls, out>>
    /\ UNCHANGED cfgvars
    /\ UNCHANGED srvvars

\* framed.next() yields None: break, Ok(())
ReadEof(c) ==
    /\ RuntimeAlive
    /\ pc[c] = "reading"
    /\ EndSession(c, "ok")
    /\ UNCHANGED <<ninst, inst, reqs, calls, out>>
    /\ rd' = [rd EXCEPT ![c] = "eof"]
    /\ UNCHANGED cfgvars
    /\ UNCHANGED srvvars

\* as ReadError, with the session's error carried into the accept loop
ReadErrorEscalates(c) ==
    /\ RuntimeAlive
    /\ pc[c] = "reading"
    /\ EndSession(c, "err")
    /\ rd' = [rd EXCEPT ![c] = "err"]
    /\ srv' = "ShuttingDown"
    /\ cause' = "acceptErr"
    /\ UNCHANGED <<ninst, inst, reqs, calls, out>>
    /\ UNCHANGED <<sig, lsock, nacc>>
    /\ UNCHANGED cfgvars

\* as ReadError, with the undecodable frame skipped and the loop continued
ReadErrorSkip(c) ==
    /\ RuntimeAlive
    /\ pc[c] = "reading"
    /\ rd[c] # "err"
    /\ rd' = [rd EXCEPT ![c] = "err"]
    /\ UNCHANGED <<ninst, pc, res, open, inst, hdr, rsp, reqs, calls, out>>
    /\ UNCHANGED cfgvars
    /\ UNCHANGED srvvars

\* framed.next() yields Some(Err(e)): request.unwrap()? returns Err(e)
ReadError(c) ==
    /\ RuntimeAlive
    /\ pc[c] = "reading"
    /\ EndSession(c, "err")
    /\ UNCHANGED <<ninst, inst, reqs, calls, out>>
    /\ rd' = [rd EXCEPT ![c] = "err"]
    /\ UNCHANGED cfgvars
    /\ UNCHANGED srvvars

\* service.call(..).await yields Ok(response)
CallOk(c, r) ==
    /\ RuntimeAlive
    /\ pc[c] = "calling"
    /\ calls' = [calls EXCEPT ![c][Len(calls[c])].ret = r]
    /\ rsp' = [rsp EXCEPT ![c] = r]
    /\ pc' = [pc EXCEPT ![c] = "writing"]
    /\ UNCHANGED <<ninst, res, open, rd, inst, hdr, reqs, out>>
    /\ UNCHANGED cfgvars
    /\ UNCHANGED srvvars

\* as CallErr, with the handler's error dropped and the loop continued
CallErrSkip(c) ==
    /\ RuntimeAlive
    /\ pc[c] = "calling"
    /\ calls' = [calls EXCEPT ![c][Len(calls[c])].ret = -1]
    /\ hdr' = [hdr EXCEPT ![c] = 0]
    /\ pc' = [pc EXCEPT ![c] = "reading"]
    /\ UNCHANGED <<ninst, res, open, rd, inst, rsp, reqs, out>>
    /\ UNCHANGED cfgvars
    /\ UNCHANGED srvvars

\* service.call(..).await yields Err(e): map_err(Into::into)? returns the error
CallErr(c) ==
    /\ RuntimeAlive
    /\ pc[c] = "calling"
    /\ calls' = [calls EXCEPT ![c][Len(calls[c])].ret = -1]
    /\ EndSession(c, "err")
    /\ UNCHANGED <<ninst, rd, inst, reqs, out>>
    /\ UNCHANGED cfgvars
    /\ UNCHANGED srvvars

\* as WriteOk, with one framed shared by all tasks (that of connection 1)
WriteOkShared(c) ==
    /\ RuntimeAlive
    /\ pc[c] = "writing"
    /\ out' = [out EXCEPT ![1] = Append(@, ResponseAdu(c))]
    /\ hdr' = [hdr EXCEPT ![c] = 0]
    /\ rsp' = [rsp EXCEPT ![c] = 0]
    /\ pc' = [pc EXCEPT ![c] = "reading"]
    /\ UNCHANGED <<ninst, res, open, rd, inst, reqs, calls>>
    /\ UNCHANGED cfgvars
    /\ UNCHANGED srvvars

\* as WriteOk, with the session over after its first response
WriteOkThenClose(c) ==
    /\ RuntimeAlive
    /\ pc[c] = "writing"
    /\ out' = [out EXCEPT ![c] = Append(@, ResponseAdu(c))]
    /\ EndSession(c, "ok")
    /\ UNCHANGED <<ninst, rd, inst, reqs, calls>>
    /\ UNCHANGED cfgvars
    /\ UNCHANGED srvvars

\* framed.send(ResponseAdu).await yields Ok: back to the top of the loop
WriteOk(c) ==
    /\ RuntimeAlive
    /\ pc[c] = "writing"
    /\ out' = [out EXCEPT ![c] = Append(@, ResponseAdu(c))]
    /\ hdr' = [hdr EXCEPT ![c] = 0]
    /\ rsp' = [rsp EXCEPT ![c] = 0]
    /\ pc' = [pc EXCEPT ![c] = "reading"]
    /\ UNCHANGED <<ninst, res, open, rd, inst, reqs, calls>>
    /\ UNCHANGED cfgvars
    /\ UNCHANGED srvvars

\* framed.send(ResponseAdu).await yields Err(e): `?` returns it
WriteErr(c) ==
    /\ RuntimeAlive
    /\ pc[c] = "writing"
    /\ EndSession(c, "err")
    /\ UNCHANGED <<ninst, rd, inst, reqs, calls, out>>
    /\ UNCHANGED cfgvars
    /\ UNCHANGED srvvars

----------------------------------------------------------------------------
Next ==
    \/ Startup
    \/ Accept
    \/ AcceptError
    \/ SignalResolves
    \/ ShutdownObserved
    \/ RuntimeDrop
    \/ \E c \in Conns : NewServiceOk(c)
    \/ \E c \in Conns : NewServiceErr(c)
    \/ \E c \in Conns, f \in Frames : ReadFrame(c, f)
    \/ \E c \in Conns : ReadEof(c)
    \/ \E c \in Conns : ReadError(c)
    \/ \E c \in Conns, r \in Rsps : CallOk(c, r)
    \/ \E c \in Conns : CallErr(c)
    \/ \E c \in Conns : WriteOk(c)
    \/ \E c \in Conns : WriteErr(c)

Spec == Init /\ [][Next]_vars

\* the thread inside serve_until keeps running: once block_on is over, the
\* function returns
FairSpec == Spec /\ WF_vars(RuntimeDrop)

\* fair scheduling of the thread inside serve_until: the accept loop is polled
\* when a connection waits, and the function returns once block_on is over;
\* peers, handlers and the shutdown signal owe nothing
FairAcceptSpec == Spec /\ WF_vars(Accept) /\ WF_vars(RuntimeDrop)

\* the socket set-up alone, over every configuration
NextListener == Startup

ListenerSpec == InitListener /\ [][NextListener]_vars

----------------------------------------------------------------------------
(* Properties *)

Last(q) == q[Len(q)]

\* C1: every response written on a connection carries the header of the
\* request it answers (the i-th response that of the i-th request decoded on
\* that connection) and the payload the handler returned for that request's
\* payload, unmodified.
C1_ResponseCarriesRequestHeader ==
    \A c \in Conns : \A i \in 1..Len(out[c]) :
        /\ i <= Len(reqs[c])
        /\ i <= Len(calls[c])
        /\ out[c][i].hdr = reqs[c][i].hdr
        /\ calls[c][i].pdu = reqs[c][i].pdu
        /\ out[c][i].pdu = calls[c][i].ret
        /\ calls[c][i].ret \in Rsps

\* two requests with different headers were answered on one connection
C1_Witness ==
    \E c \in Conns :
        /\ Len(out[c]) = 2
        /\ reqs[c][1].hdr # reqs[c][2].hdr
        /\ out[c][1].pdu # out[c][2].pdu

C3_HandlerFailureEndsSession ==
    \A c \in Conns : \A i \in 1..Len(calls[c]) :
        calls[c][i].ret = -1 =>
            /\ i = Len(calls[c])
            /\ Len(reqs[c]) = i
            /\ Len(out[c]) = i - 1
            /\ pc[c] = "ended"
            /\ res[c] = "err"
            /\ ~open[c]

\* a handler failed on the second request of a connection
C3_Witness ==
    \E c \in Conns : Len(calls[c]) = 2 /\ calls[c][2].ret = -1

\* C4: on each connection the responses written are, in order, the answers to
\* the requests decoded on it: when the session is back at reading, or ended
\* cleanly, there are exactly as many responses as requests, and every
\* response on a connection was produced by that connection's own session.
C4_ResponsesInRequestOrder ==
    \A c \in Conns :
        /\ Len(out[c]) <= Len(reqs[c])
        /\ (pc[c] = "reading" \/ res[c] = "ok") => Len(out[c]) = Len(reqs[c])
        /\ \A i \in 1..Len(out[c]) :
              out[c][i].conn = c /\ out[c][i].hdr = reqs[c][i].hdr

\* two connections were each sent a request and each got its response
C4_Witness ==
    /\ \A c \in {1, 2} : Len(out[c]) = 1 /\ pc[c] = "reading"
    /\ reqs[1][1].hdr # reqs[2][1].hdr

\* what a step leaves alone of every session but c
OthersUntouched(c) ==
    \A d \in Conns \ {c} :
        /\ pc'[d] = pc[d]
        /\ res'[d] = res[d]
        /\ open'[d] = open[d]
        /\ inst'[d] = inst[d]
        /\ reqs'[d] = reqs[d]
        /\ calls'[d] = calls[d]
        /\ out'[d] = out[d]

\* C5: a step in which a session ends with an error (read, handler or write)
\* changes nothing of the server (state of serve_until, accept count, so an
\* accept that was possible stays possible) and nothing of any other session;
\* and serve_until returns only once the race was decided, by the resolved
\* shutdown signal or by a failed accept.
C5_SessionErrorStaysLocal ==
    [][ /\ \A c \in Conns :
              (res[c] = "none" /\ res'[c] = "err") =>
                  /\ srv' = srv
                  /\ cause' = cause
                  /\ nacc' = nacc
                  /\ OthersUntouched(c)
        /\ (srv # "Stopped" /\ srv' = "Stopped") =>
              /\ srv = "ShuttingDown"
              /\ cause \in {"shutdown", "acceptErr"}
              /\ cause = "shutdown" => sig = "resolved"
      ]_vars

\* one session ended with an error; the server still serves and a connection
\* accepted after that one has got a response and waits for its next request
C5_Witness ==
    /\ srv = "Serving"
    /\ res[1] = "err"
    /\ Len(out[2]) >= 1
    /\ pc[2] = "reading"

\* C6: a step in which the handler factory fails for a connection closes that
\* connection with no request served on it, and changes nothing of the server
\* (serve_until neither returns nor fails, accepting stays possible) and
\* nothing of any other session.
C6_FactoryFailureStaysLocal ==
    [][ \A c \in Conns :
            (res[c] = "none" /\ res'[c] = "panic") =>
                /\ pc[c] = "spawned"
                /\ ~open'[c]
                /\ reqs'[c] = <<>> /\ calls'[c] = <<>> /\ out'[c] = <<>>
                /\ srv' = srv
                /\ cause' = cause
                /\ nacc' = nacc
                /\ OthersUntouched(c)
      ]_vars

\* the factory failed for the first connection, the server still serves and
\* the second connection got its response
C6_Witness ==
    /\ srv = "Serving"
    /\ res[1] = "panic"
    /\ Len(out[2]) >= 1

C8_NoAcceptAfterShutdown ==
    [][ cause = "shutdown" =>
            /\ nacc' = nacc
            /\ \A c \in Conns : pc[c] = "none" => pc'[c] = "none"
      ]_vars

\* the shutdown signal was observed while serving, with a connection accepted
\* before it and another one never accepted
C8_Witness ==
    /\ cause = "shutdown"
    /\ srv = "Stopped"
    /\ lsock.ok
    /\ nacc = 1
    /\ pc[2] = "none"

\* C9: when accept yields an error the accept loop is over (the server is no
\* longer Serving: nothing is accepted any more), the race is decided without
\* a panic, and serve_until returns, also when the shutdown signal never
\* resolves.
C9_AcceptErrorEndsServe ==
    /\ [](cause = "acceptErr" => srv \in {"ShuttingDown", "Stopped"})
    /\ [][cause = "acceptErr" => nacc' = nacc]_vars
    /\ (cause = "acceptErr") ~> (srv = "Stopped")

\* serve (whose signal never resolves) returned after a failed accept
C9_Witness ==
    /\ entry = "serve"
    /\ sig = "pending"
    /\ cause = "acceptErr"
    /\ srv = "Stopped"

\* C10: when framed.next() yields end-of-stream the session ends with Ok: no
\* handler call is made for that read and no response is written for it, so
\* the calls and the responses are those of the requests decoded before.
C10_EofEndsSessionCleanly ==
    \A c \in Conns :
        rd[c] = "eof" =>
            /\ pc[c] = "ended"
            /\ res[c] = "ok"
            /\ Len(calls[c]) = Len(reqs[c])
            /\ Len(out[c]) = Len(reqs[c])

\* a peer closed without sending anything
C10_Witness ==
    \E c \in Conns :
        rd[c] = "eof" /\ res[c] = "ok" /\ reqs[c] = <<>> /\ out[c] = <<>>

\* C11: each connection has at most one request in flight, and its events are
\* ordered request n, handler call n, response n, request n+1: a session that
\* reads has answered every request decoded, one whose handler call is pending
\* or whose response is being written has exactly one request unanswered.
C11_OneRequestInFlight ==
    \A c \in Conns :
        /\ Len(out[c]) <= Len(calls[c])
        /\ Len(calls[c]) <= Len(reqs[c])
        /\ Len(reqs[c]) <= Len(out[c]) + 1
        /\ pc[c] \in {"none", "spawned", "reading"} => Len(reqs[c]) = Len(out[c])
        /\ pc[c] = "calling" =>
              /\ Len(reqs[c]) = Len(out[c]) + 1
              /\ Len(calls[c]) = Len(reqs[c])
              /\ Last(calls[c]).ret = 0
        /\ pc[c] = "writing" =>
              /\ Len(reqs[c]) = Len(out[c]) + 1
              /\ Last(calls[c]).ret \in Rsps
              /\ rsp[c] = Last(calls[c]).ret
        /\ \A i \in 1..(Len(calls[c]) - 1) : calls[c][i].ret \in Rsps

\* the second request of a connection is in flight after its first response
C11_Witness ==
    \E c \in Conns : Len(reqs[c]) = 2 /\ Len(out[c]) = 1 /\ pc[c] = "writing"

\* C12 as stated: every accepted connection gets exactly one handler instance:
\* a task that has made its factory call, or ended, has one.
C12_EveryConnectionGetsInstance ==
    \A c \in Conns : pc[c] \in {"reading", "calling", "writing", "ended"} => inst[c] # 0

\* C12 amended: every accepted connection gets exactly one task and at most one
\* handler instance, made by that task's own call of the factory: exactly one
\* once the call has succeeded, none when the call fails or the task is
\* cancelled before it calls; no instance belongs to two connections, and every
\* handler call of a session goes to the session's own instance.
C12_InstancePerConnection ==
    /\ \A c \in Conns :
          /\ c <= nacc <=> pc[c] # "none"
          /\ inst[c] \in {0, c}
          /\ pc[c] \in {"reading", "calling", "writing"} => inst[c] # 0
          /\ pc[c] \in {"none", "spawned"} => inst[c] = 0
          /\ res[c] = "panic" => inst[c] = 0
          /\ \A i \in 1..Len(calls[c]) : calls[c][i].inst = inst[c] /\ inst[c] # 0
    /\ \A c, d \in Conns : (c # d /\ inst[c] # 0) => inst[c] # inst[d]
    /\ ninst = Cardinality({c \in Conns : inst[c] # 0})
    /\ ninst <= nacc

\* two sessions each made a handler call, each on its own instance
C12_Witness ==
    /\ \A c \in {1, 2} : Len(calls[c]) = 1 /\ calls[c][1].inst = c
    /\ ninst = 2

\* C13: a connection is open exactly while its task is alive: it is opened by
\* the accept that spawns the task and closed when the task ends, however it
\* ends (end-of-stream, read, handler or write error, factory failure,
\* cancellation).
C13_ConnectionClosedWithSession ==
    \A c \in Conns :
        /\ pc[c] = "ended" => ~open[c]
        /\ Live(c) => open[c]
        /\ pc[c] = "none" => ~open[c]

\* one session ended on a write error and another on a factory failure
C13_Witness ==
    \E c, d \in Conns :
        /\ res[c] = "err" /\ Len(reqs[c]) = 1 /\ calls[c][1].ret \in Rsps /\ ~open[c]
        /\ res[d] = "panic" /\ ~open[d]

C15_ServeReturnsOnlyOnAcceptError ==
    entry = "serve" =>
        /\ sig = "pending"
        /\ cause \in {"none", "acceptErr"}
        /\ srv \in {"ShuttingDown", "Stopped"} => (cause = "acceptErr" /\ lsock.ok)

\* serve returned after a failed accept, having served a connection
C15_Witness ==
    /\ entry = "serve"
    /\ srv = "Stopped"
    /\ cause = "acceptErr"
    /\ \E c \in Conns : Len(out[c]) >= 1

\* C16: whenever listener returns a listener, the address-reuse option of its
\* socket is on, and was on when the socket was bound.
C16_ReuseAddressOnBeforeBind ==
    lsock.ok => (lsock.bound /\ lsock.reuseAddr /\ lsock.reuseAtBind)

\* C17: a read that yields an error ends the session with that error at once:
\* no handler call and no response for it, and nothing read afterwards. A
\* write that fails (the session ended with an error after its handler had
\* returned a response) ends the session with that response unwritten and
\* nothing read afterwards.
C17_ReadOrWriteErrorEndsSession ==
    \A c \in Conns :
        /\ rd[c] = "err" =>
              /\ pc[c] = "ended"
              /\ res[c] = "err"
              /\ Len(calls[c]) = Len(reqs[c])
              /\ Len(out[c]) = Len(reqs[c])
        /\ (res[c] = "err" /\ rd[c] = "frame" /\ Last(calls[c]).ret \in Rsps) =>
              /\ pc[c] = "ended"
              /\ Len(calls[c]) = Len(reqs[c])
              /\ Len(out[c]) = Len(reqs[c]) - 1
        /\ res[c] = "err" => (pc[c] = "ended" /\ ~open[c])

\* one session ended on a read error after an exchange, another on a write
\* error
C17_Witness ==
    \E c, d \in Conns :
        /\ rd[c] = "err" /\ Len(out[c]) = 1
        /\ res[d] = "err" /\ rd[d] = "frame" /\ Last(calls[d]).ret \in Rsps

\* C18 as stated: the handler instance is obtained at accept time, before the
\* task of the connection is launched: every launched task has its instance.
C18_InstanceBeforeLaunch ==
    \A c \in Conns : pc[c] # "none" => inst[c] # 0

\* C18 amended: the accept loop launches the task of a connection first, and
\* the handler instance is obtained inside that task as its first step, before
\* process() starts: a task may exist without an instance (while later
\* connections are accepted), but no request is read and no handler call made
\* on a connection whose instance does not exist yet.
C18_InstanceBeforeFirstRead ==
    \A c \in Conns :
        /\ pc[c] \in {"reading", "calling", "writing"} => inst[c] # 0
        /\ (reqs[c] # <<>> \/ rd[c] # "none") => inst[c] # 0
        /\ \A i \in 1..Len(calls[c]) : calls[c][i].inst # 0
        /\ pc[c] = "spawned" => (inst[c] = 0 /\ reqs[c] = <<>> /\ rd[c] = "none")

\* the second connection was accepted and is served while the task of the
\* first has not yet obtained its instance
C18_Witness ==
    /\ pc[1] = "spawned" /\ inst[1] = 0
    /\ inst[2] # 0 /\ Len(calls[2]) >= 1

\* C19 as stated: under fair scheduling every connection that waits while the
\* server is Serving is eventually handed its session: from a Serving state
\* with connections waiting, all of them get accepted.
C19_EveryArrivalGetsSession ==
    (srv = "Serving" /\ nacc < MaxConns) ~> (nacc = MaxConns)

\* C19 amended: whatever the sessions are doing (waiting for a peer, or in a
\* handler call that never completes) the accept loop can accept the next
\* connection while the server is Serving, and a session whose handler call is
\* pending or whose response is ready can go on; under fair scheduling every
\* connection that waits while the server is Serving is eventually handed its
\* own session, unless the server leaves Serving first (the shutdown signal
\* is observed, or accept fails).
C19_SessionsIndependent ==
    /\ []((srv = "Serving" /\ nacc < MaxConns) => ENABLED Accept)
    /\ [](\A c \in Conns :
             /\ (RuntimeAlive /\ pc[c] = "calling") => ENABLED CallOk(c, 1)
             /\ (RuntimeAlive /\ pc[c] = "writing") => ENABLED WriteOk(c))
    /\ (srv = "Serving" /\ nacc < MaxConns) ~> (nacc = MaxConns \/ srv # "Serving")

\* the first session is stuck in its handler call; the second connection was
\* accepted after it and has completed an exchange
C19_Witness ==
    /\ srv = "Serving"
    /\ pc[1] = "calling"
    /\ Len(out[2]) = 1 /\ pc[2] = "reading"

\* C20: on every connection the handler calls are the requests decoded, one
\* call each and in the same order, so there are as many calls as requests
\* and at most as many responses as calls; no call is made on a connection
\* whose session has ended.
C20_OneCallPerRequest ==
    /\ [](\A c \in Conns :
             /\ Len(calls[c]) = Len(reqs[c])
             /\ Len(out[c]) <= Len(calls[c])
             /\ \A i \in 1..Len(calls[c]) : calls[c][i].pdu = reqs[c][i].pdu)
    /\ [][ \A c \in Conns :
              /\ pc[c] = "ended" => (calls'[c] = calls[c] /\ reqs'[c] = reqs[c])
              /\ Len(calls'[c]) <= Len(calls[c]) + 1 ]_vars

\* two requests with different payloads were dispatched on one connection
\* and the session has ended
C20_Witness ==
    \E c \in Conns :
        /\ Len(calls[c]) = 2
        /\ calls[c][1].pdu # calls[c][2].pdu
        /\ pc[c] = "ended"

====
